---- MODULE Spec2Model ----
(***************************************************************************)
(* Authorization core of the voter database API: signed session tokens,    *)
(* the static permission table, the per-request DUN scoping of voter rows  *)
(* and the audit trail written by the handlers.                            *)
(*                                                                         *)
(* Python's None is the value None below; a database NULL is read as None. *)
(***************************************************************************)
EXTENDS Integers, Sequences, FiniteSets, TLC

VARIABLES users, voters, audit_log, tokens, SECRET_KEY, now, resp, pure, pending

vars == <<users, voters, audit_log, tokens, SECRET_KEY, now, resp, pure, pending>>

None == "<None>"

(* ---------------------------------------------------------------------- *)
(* Bounds of the model                                                     *)
(* ---------------------------------------------------------------------- *)

\* longest audit_log the one-account specification lets the handlers grow
MaxAudit == 1
\* longest audit_log of the two-account specification
MaxAccountAudit == 2
\* hours the clock of the session specification runs
MaxTime == 9
\* restarts of the server process in the session specification
MaxRestarts == 1
\* most session tokens outstanding at once
MaxTokens == 1

(* ---------------------------------------------------------------------- *)
(* Value domains                                                           *)
(* ---------------------------------------------------------------------- *)

KnownRoles == {"super_admin", "candidate", "candidate_assistant", "super_user", "pdm"}
\* "observer" stands for any role string the permission table does not list
Roles == KnownRoles \cup {"observer"}

Capabilities == {"view_all_dun", "view_own_dun", "export_own_dun", "export_all",
                 "update_voters", "manage_users", "generate_reports", "view_audit_logs"}
\* "delete_voters" stands for any capability string no table entry names
CapabilityInputs == Capabilities \cup {"delete_voters"}

Duns == {"Kawang", "Limbahau"}
\* a user's dun column: a DUN, NULL, or the empty string
UserDuns == Duns \cup {None, ""}
\* a voter's dun column: a DUN or NULL (the import leaves it NULL)
VoterDuns == Duns \cup {None}

UserIds == {1}
VoterIds == {1, 2, 3}
\* voter ids a request may name; 4 is the id of no row
VoterIdInputs == VoterIds \cup {4}

\* tags a caller may send: none (the default of VoterUpdate) or any string
TagInputs == {None, "Maybe"}

(* ---------------------------------------------------------------------- *)
(* Python truthiness and the `or` of get_current_user                      *)
(* ---------------------------------------------------------------------- *)

\* `if value:` for a string or None
Truthy(v) == v # None /\ v # ""

PyOr(a, b) == IF Truthy(a) THEN a ELSE b

\* str(v) as the query builder renders a filter value
PyStr(v) == IF v = None THEN "None" ELSE v

(* ---------------------------------------------------------------------- *)
(* utils/auth.py: permission table and scope predicate                     *)
(* ---------------------------------------------------------------------- *)

\* PERMISSIONS[role] is the set of (capability, value) entries the table lists
PERMISSIONS ==
  [r \in KnownRoles |->
     CASE r = "super_admin" ->
            [c \in {"view_all_dun", "export_all", "update_voters", "manage_users",
                    "generate_reports", "view_audit_logs"} |-> TRUE]
       [] r = "candidate" ->
            [c \in {"view_all_dun", "view_own_dun", "export_own_dun", "update_voters",
                    "manage_users", "generate_reports", "view_audit_logs"} |->
               c \in {"view_own_dun", "export_own_dun", "update_voters", "generate_reports"}]
       [] r = "candidate_assistant" ->
            [c \in {"view_all_dun", "view_own_dun", "export_own_dun", "update_voters",
                    "manage_users", "generate_reports", "view_audit_logs"} |->
               c \in {"view_own_dun", "generate_reports"}]
       [] r = "super_user" ->
            [c \in {"view_all_dun", "view_own_dun", "export_own_dun", "update_voters",
                    "manage_users", "generate_reports", "view_audit_logs"} |->
               c \in {"view_own_dun", "export_own_dun", "generate_reports"}]
       [] r = "pdm" ->
            [c \in {"view_all_dun", "view_own_dun", "export_own_dun", "update_voters",
                    "manage_users", "generate_reports", "view_audit_logs"} |->
               c \in {"view_own_dun", "export_own_dun", "update_voters", "generate_reports"}]]

\* dict.get(key, default)
DictGet(d, key, default) == IF key \in DOMAIN d THEN d[key] ELSE default

check_permission_NoRoleGuard(user_role, permission) ==
  DictGet(PERMISSIONS[IF user_role \in DOMAIN PERMISSIONS THEN user_role ELSE "super_admin"],
          permission, FALSE)

check_permission_DefaultAllow(user_role, permission) ==
  IF user_role \notin DOMAIN PERMISSIONS
    THEN FALSE
    ELSE DictGet(PERMISSIONS[user_role], permission, TRUE)

check_permission(user_role, permission) ==
  IF user_role \notin DOMAIN PERMISSIONS
    THEN FALSE
    ELSE DictGet(PERMISSIONS[user_role], permission, FALSE)

can_access_dun_NoneDenied(user_role, user_dun, target_dun) ==
  IF user_role = "super_admin" THEN TRUE ELSE user_dun # None /\ user_dun = target_dun

can_access_dun(user_role, user_dun, target_dun) ==
  IF user_role = "super_admin" THEN TRUE ELSE user_dun = target_dun


(* ---------------------------------------------------------------------- *)
(* utils/auth.py: password hasher and token codec                          *)
(* ---------------------------------------------------------------------- *)

\* bcrypt digest of a password: one-way, never equal to the plaintext
hash_password(password) == <<"$2b$", password>>

\* a verification that accepts every password
verify_password_Always(plain_password, hashed_password) == TRUE

verify_password(plain_password, hashed_password) ==
  hashed_password = <<"$2b$", plain_password>>

\* hours a token lives
ACCESS_TOKEN_EXPIRE_HOURS == 8

\* a token that lives a day
create_access_token_LongLived(data) ==
  [user_id |-> data.user_id, username |-> data.username, role |-> data.role,
   dun |-> data.dun, exp |-> now + 24, key |-> SECRET_KEY]

\* a signed token: the claims of `data`, the expiry, and the key that signed it
create_access_token(data) ==
  [user_id |-> data.user_id, username |-> data.username, role |-> data.role,
   dun |-> data.dun, exp |-> now + ACCESS_TOKEN_EXPIRE_HOURS, key |-> SECRET_KEY]

\* a bearer string that is no token this process ever signed
BadToken ==
  [user_id |-> 0, username |-> None, role |-> None, dun |-> None, exp |-> 0, key |-> 0]

\* the None that verify_token returns for a token jwt.decode refuses
NoPayload == [valid |-> FALSE]

\* jwt.decode with options verify_exp off
verify_token_NoExpiry(token) ==
  IF token.key # SECRET_KEY THEN NoPayload ELSE token

\* jwt.decode with options verify_signature off
verify_token_AnyKey(token) ==
  IF token.exp < now THEN NoPayload ELSE token

\* jwt.decode: the payload, or NoPayload on a bad signature, a malformed
\* string or an expiry in the past
verify_token(token) ==
  IF token.key # SECRET_KEY \/ token.exp < now THEN NoPayload ELSE token

(* ---------------------------------------------------------------------- *)
(* The store: users, voters, audit_log tables                              *)
(* ---------------------------------------------------------------------- *)

\* columns of the voters table that no operation of the API writes
VoterStatic ==
  [v \in VoterIds |->
     CASE v = 1 -> [bil |-> 1, nama_pemilih |-> <<"A", "L", "I">>, jantina |-> "L",
                    daerah_mengundi |-> "Kinarut", lokaliti |-> "Kg Laut", dun |-> "Kawang"]
       [] v = 2 -> [bil |-> 2, nama_pemilih |-> <<"S", "I", "T", "I">>, jantina |-> "P",
                    daerah_mengundi |-> "Papar", lokaliti |-> None, dun |-> "Limbahau"]
       [] v = 3 -> [bil |-> 3, nama_pemilih |-> <<"L", "I", "M">>, jantina |-> "L",
                    daerah_mengundi |-> None, lokaliti |-> "Kg Laut", dun |-> None]]

VoterRow(v, tag, updated_at) ==
  [id |-> v, bil |-> VoterStatic[v].bil, nama_pemilih |-> VoterStatic[v].nama_pemilih,
   jantina |-> VoterStatic[v].jantina, daerah_mengundi |-> VoterStatic[v].daerah_mengundi,
   lokaliti |-> VoterStatic[v].lokaliti, dun |-> VoterStatic[v].dun,
   tag |-> tag, updated_at |-> updated_at]

\* .eq(column, value): the value is rendered as text and compared to the
\* column; a NULL column equals nothing
StoreEq(column, value) == column # None /\ column = PyStr(value)

Lower(ch) ==
  CASE ch = "A" -> "a" [] ch = "L" -> "l" [] ch = "I" -> "i" [] ch = "S" -> "s"
    [] ch = "T" -> "t" [] ch = "M" -> "m" [] OTHER -> ch

\* .ilike(column, '%name%'): case-insensitive substring match
StoreILike(column, name) ==
  \E i \in 0..(Len(column) - Len(name)) :
    \A j \in 1..Len(name) : Lower(column[i + j]) = Lower(name[j])

RECURSIVE OrderByBil(_)
\* .order('bil'): the ids of `rows` by ascending bil
OrderByBil(rows) ==
  IF rows = {} THEN <<>>
  ELSE LET first == CHOOSE v \in rows : \A w \in rows : voters[v].bil <= voters[w].bil
       IN <<first>> \o OrderByBil(rows \ {first})

\* .range(first, last): rows first..last of the ordered result, counted from 0
StoreRange(ordered, first, last) ==
  SubSeq(ordered, first + 1, IF last + 1 < Len(ordered) THEN last + 1 ELSE Len(ordered))

AuditEntry(user_id, action, table_name, record_id) ==
  [user_id |-> user_id, action |-> action, table_name |-> table_name,
   record_id |-> record_id]

audit_insert_Dropped(log, entry) == log

audit_insert_Replacing(log, entry) == <<entry>>

\* supabase.table('audit_log').insert(entry).execute()
audit_insert(log, entry) == Append(log, entry)

\* the audit trigger of the voters table, which update_voter relies on for the
\* entry of an update: it is declared in the database schema, and records the
\* update as the specification describes an audit entry
voters_update_trigger(log, user_id, voter_id) ==
  Append(log, AuditEntry(user_id, "update", "voters", voter_id))

(* ---------------------------------------------------------------------- *)
(* Responses                                                               *)
(* ---------------------------------------------------------------------- *)

NoStats == [dun |-> None, total |-> 0, yes |-> 0, unsure |-> 0, no |-> 0, untagged |-> 0]

NoPrincipal == [id |-> 0, username |-> None, role |-> None, dun |-> None, user_id |-> 0]

\* the JSON body of a LoginRequest (username, password) or of a
\* ChangePasswordRequest (current password as password, new_password)
Body(username, password, new_password) ==
  [username |-> username, password |-> password, new_password |-> new_password]

NoBody == Body(None, None, None)

\* the last request (the operation, the bearer token, the voter id and the dun
\* parameter sent) and what its caller got back: the principal
\* get_current_user resolved, the status, the detail of an HTTPException, and
\* the body (rows by id, a statistics object, or a list of names)
Request(op, token, voter_id, dun) ==
  [op |-> op, token |-> token, voter_id |-> voter_id, dun |-> dun, body |-> NoBody]

\* a request of the authentication router, which carries a JSON body
BodyRequest(op, token, body) ==
  [op |-> op, token |-> token, voter_id |-> 0, dun |-> None, body |-> body]

Response(request, principal, status, detail, data, stats, names) ==
  [op |-> request.op, token |-> request.token, voter_id |-> request.voter_id,
   dun |-> request.dun, body |-> request.body, principal |-> principal,
   status |-> status, detail |-> detail, data |-> data, stats |-> stats,
   names |-> names]

HTTPException(request, principal, status, detail) ==
  Response(request, principal, status, detail, <<>>, NoStats, <<>>)

NoResponse == HTTPException(Request("none", BadToken, 0, None), NoPrincipal, 0, None)

(* ---------------------------------------------------------------------- *)
(* api/auth.py: get_current_user                                           *)
(* ---------------------------------------------------------------------- *)

Authenticated(user) == [ok |-> TRUE, status |-> 200, detail |-> None, user |-> user]

Rejected(status, detail) ==
  [ok |-> FALSE, status |-> status, detail |-> detail, user |-> NoPrincipal]

get_current_user_TrustsToken(token) ==
  LET payload == verify_token(token) IN
  IF payload = NoPayload
    THEN Rejected(401, "Invalid authentication credentials")
  ELSE IF payload.user_id \notin DOMAIN users
    THEN Rejected(401, "User not found")
  ELSE Authenticated([id |-> payload.user_id, username |-> payload.username,
                      role |-> payload.role,
                      dun |-> PyOr(payload.dun, users[payload.user_id].dun),
                      user_id |-> payload.user_id])

\* get_current_user that tells the caller its token has expired
get_current_user_ExpiredDetail(token) ==
  LET payload == verify_token(token) IN
  IF payload = NoPayload
    THEN Rejected(401, IF token.key = SECRET_KEY THEN "Token has expired"
                       ELSE "Invalid authentication credentials")
  ELSE IF payload.user_id \notin DOMAIN users
    THEN Rejected(401, "User not found")
  ELSE LET user == users[payload.user_id] IN
       IF ~user.is_active
         THEN Rejected(403, "User account is inactive")
         ELSE Authenticated([id |-> user.id, username |-> payload.username,
                             role |-> payload.role,
                             dun |-> PyOr(payload.dun, user.dun),
                             user_id |-> user.id])

get_current_user(token) ==
  LET payload == verify_token(token) IN
  IF payload = NoPayload
    THEN Rejected(401, "Invalid authentication credentials")
  ELSE IF payload.user_id \notin DOMAIN users
    THEN Rejected(401, "User not found")
  ELSE LET user == users[payload.user_id] IN
       IF ~user.is_active
         THEN Rejected(403, "User account is inactive")
         ELSE Authenticated([id |-> user.id, username |-> payload.username,
                             role |-> payload.role,
                             dun |-> PyOr(payload.dun, user.dun),
                             user_id |-> user.id])


(* ---------------------------------------------------------------------- *)
(* api/auth.py: login                                                      *)
(* ---------------------------------------------------------------------- *)

Usernames == {"user1"}
\* "ghost" is the username of no row
UsernameInputs == Usernames \cup {"ghost"}
PasswordInputs == {"Kawang2024", "Admin123!"}

\* .eq("username", ...): ids of the matching rows
UsersByUsername(username) == {u \in DOMAIN users : StoreEq(users[u].username, username)}

\* a login that looks at is_active before it looks at the password
login_ActiveFirst(username, password) ==
  LET found == UsersByUsername(username)
      request == BodyRequest("login", BadToken, Body(username, password, None))
  IN
  IF found = {}
    THEN /\ resp' = HTTPException(request, NoPrincipal, 401, "Invalid username or password")
         /\ UNCHANGED <<users, voters, audit_log, tokens, SECRET_KEY, now, pure, pending>>
  ELSE LET user == users[CHOOSE u \in found : TRUE] IN
    IF ~user.is_active
      THEN /\ resp' = HTTPException(request, NoPrincipal, 403, "User account is inactive")
           /\ UNCHANGED <<users, voters, audit_log, tokens, SECRET_KEY, now, pure, pending>>
    ELSE IF user.password_hash = <<>> \/ ~verify_password(password, user.password_hash)
      THEN /\ resp' = HTTPException(request, NoPrincipal, 401, "Invalid username or password")
           /\ UNCHANGED <<users, voters, audit_log, tokens, SECRET_KEY, now, pure, pending>>
    ELSE LET token_data == [user_id |-> user.id, username |-> user.username,
                            role |-> user.role, dun |-> user.dun]
             access_token == create_access_token(token_data)
             user_info == [id |-> user.id, username |-> user.username,
                           role |-> user.role, dun |-> user.dun, user_id |-> user.id]
         IN /\ Cardinality(tokens \cup {access_token}) <= MaxTokens
            /\ tokens' = tokens \cup {access_token}
            /\ resp' = Response([request EXCEPT !.token = access_token], user_info, 200, None,
                                <<>>, NoStats, <<>>)
            /\ UNCHANGED <<users, voters, audit_log, SECRET_KEY, now, pure, pending>>

login(username, password) ==
  LET found == UsersByUsername(username)
      request == BodyRequest("login", BadToken, Body(username, password, None))
  IN
  IF found = {}
    THEN /\ resp' = HTTPException(request, NoPrincipal, 401, "Invalid username or password")
         /\ UNCHANGED <<users, voters, audit_log, tokens, SECRET_KEY, now, pure, pending>>
  ELSE LET user == users[CHOOSE u \in found : TRUE] IN
    IF user.password_hash = <<>> \/ ~verify_password(password, user.password_hash)
      THEN /\ resp' = HTTPException(request, NoPrincipal, 401, "Invalid username or password")
           /\ UNCHANGED <<users, voters, audit_log, tokens, SECRET_KEY, now, pure, pending>>
    ELSE IF ~user.is_active
      THEN /\ resp' = HTTPException(request, NoPrincipal, 403, "User account is inactive")
           /\ UNCHANGED <<users, voters, audit_log, tokens, SECRET_KEY, now, pure, pending>>
    ELSE LET token_data == [user_id |-> user.id, username |-> user.username,
                            role |-> user.role, dun |-> user.dun]
             access_token == create_access_token(token_data)
             user_info == [id |-> user.id, username |-> user.username,
                           role |-> user.role, dun |-> user.dun, user_id |-> user.id]
         IN /\ Cardinality(tokens \cup {access_token}) <= MaxTokens
            /\ tokens' = tokens \cup {access_token}
            /\ resp' = Response([request EXCEPT !.token = access_token], user_info, 200, None,
                                <<>>, NoStats, <<>>)
            /\ UNCHANGED <<users, voters, audit_log, SECRET_KEY, now, pure, pending>>

(* ---------------------------------------------------------------------- *)
(* api/main.py: get_voters                                                 *)
(* ---------------------------------------------------------------------- *)

\* default page size of get_voters
DefaultLimit == 100

\* a request that sets no query parameter; an absent name is the empty
\* string, any other absent parameter is None
NoFilters ==
  [name |-> <<>>, gender |-> None, daerah |-> None, lokaliti |-> None, dun |-> None,
   tag |-> None, limit |-> DefaultLimit, offset |-> 0]

\* the query parameters a caller may send: besides dun, one request sets at
\* most one filter, and pages only a query that sets none
VoterQueryInputs ==
  {[q EXCEPT !.dun = d] :
     q \in {NoFilters,
            [NoFilters EXCEPT !.name = <<"l", "i">>],
            [NoFilters EXCEPT !.gender = "L"],
            [NoFilters EXCEPT !.daerah = "Kinarut"],
            [NoFilters EXCEPT !.lokaliti = "Kg Laut"],
            [NoFilters EXCEPT !.tag = "untagged"],
            [NoFilters EXCEPT !.tag = "Yes"],
            [NoFilters EXCEPT !.limit = 1],
            [NoFilters EXCEPT !.limit = 1, !.offset = 1]},
     d \in {None, "Kawang", "Limbahau"}}

\* the DUN restriction of the list query, for a principal that has a dun
voters_dun_restriction_FromParam(current_user, v, dun) ==
  IF current_user.role # "super_admin"
    THEN StoreEq(voters[v].dun, IF Truthy(dun) THEN dun ELSE current_user.dun)
    ELSE Truthy(dun) => StoreEq(voters[v].dun, dun)

\* a restriction to the principal's own dun for every role
voters_dun_restriction_OwnDun(current_user, v, dun) ==
  StoreEq(voters[v].dun, current_user.dun)

voters_dun_restriction(current_user, v, dun) ==
  /\ current_user.role # "super_admin" => StoreEq(voters[v].dun, current_user.dun)
  /\ (Truthy(dun) /\ current_user.role = "super_admin") => StoreEq(voters[v].dun, dun)

\* rows the filters of get_voters select
get_voters_query(current_user, p) ==
  {v \in DOMAIN voters :
     /\ voters_dun_restriction(current_user, v, p.dun)
     /\ Len(p.name) > 0 => StoreILike(voters[v].nama_pemilih, p.name)
     /\ Truthy(p.gender) => StoreEq(voters[v].jantina, p.gender)
     /\ Truthy(p.daerah) => StoreEq(voters[v].daerah_mengundi, p.daerah)
     /\ Truthy(p.lokaliti) => StoreEq(voters[v].lokaliti, p.lokaliti)
     /\ Truthy(p.tag) => IF p.tag = "untagged" THEN voters[v].tag = None
                         ELSE StoreEq(voters[v].tag, p.tag)}

\* whether get_voters refuses the principal before querying
no_dun_assignment_Never(current_user) == FALSE

no_dun_assignment(current_user) ==
  current_user.role # "super_admin" /\ ~Truthy(current_user.dun)

get_voters(token, p) ==
  LET auth == get_current_user(token) IN
  IF ~auth.ok
    THEN /\ resp' = HTTPException(Request("get_voters", token, 0, p.dun), NoPrincipal,
                                  auth.status, auth.detail)
         /\ UNCHANGED <<users, voters, audit_log, tokens, SECRET_KEY, now, pure, pending>>
  ELSE IF no_dun_assignment(auth.user)
    THEN /\ resp' = HTTPException(Request("get_voters", token, 0, p.dun), auth.user, 403,
                                  "User has no DUN assignment")
         /\ UNCHANGED <<users, voters, audit_log, tokens, SECRET_KEY, now, pure, pending>>
  ELSE LET data == StoreRange(OrderByBil(get_voters_query(auth.user, p)),
                              p.offset, p.offset + p.limit - 1)
       IN /\ audit_log' = audit_insert(audit_log, AuditEntry(auth.user.id, "view", "voters", 0))
          /\ resp' = Response(Request("get_voters", token, 0, p.dun), auth.user, 200, None,
                              data, NoStats, <<>>)
          /\ UNCHANGED <<users, voters, tokens, SECRET_KEY, now, pure, pending>>

(* ---------------------------------------------------------------------- *)
(* api/main.py: get_voter, update_voter                                    *)
(* ---------------------------------------------------------------------- *)

\* the "Check DUN access" test of get_voter and update_voter: TRUE when the
\* handler raises 403
dun_access_denied_SuperAdminToo(current_user, voter) ==
  voter.dun # current_user.dun

dun_access_denied(current_user, voter) ==
  current_user.role # "super_admin" /\ voter.dun # current_user.dun

\* get_voter with the "Log access" insert placed before the DUN check
get_voter_AuditsFirst(token, voter_id) ==
  LET auth == get_current_user(token) IN
  IF ~auth.ok
    THEN /\ resp' = HTTPException(Request("get_voter", token, voter_id, None), NoPrincipal,
                                  auth.status, auth.detail)
         /\ UNCHANGED <<users, voters, audit_log, tokens, SECRET_KEY, now, pure, pending>>
  ELSE IF voter_id \notin DOMAIN voters
    THEN /\ resp' = HTTPException(Request("get_voter", token, voter_id, None), auth.user, 404,
                                  "Voter not found")
         /\ UNCHANGED <<users, voters, audit_log, tokens, SECRET_KEY, now, pure, pending>>
  ELSE /\ audit_log' = audit_insert(audit_log,
                                    AuditEntry(auth.user.id, "view", "voters", voter_id))
       /\ resp' = IF dun_access_denied(auth.user, voters[voter_id])
                    THEN HTTPException(Request("get_voter", token, voter_id, None), auth.user,
                                       403, "Access denied to this voter's DUN")
                    ELSE Response(Request("get_voter", token, voter_id, None), auth.user, 200,
                                  None, <<voter_id>>, NoStats, <<>>)
       /\ UNCHANGED <<users, voters, tokens, SECRET_KEY, now, pure, pending>>

get_voter(token, voter_id) ==
  LET auth == get_current_user(token) IN
  IF ~auth.ok
    THEN /\ resp' = HTTPException(Request("get_voter", token, voter_id, None), NoPrincipal,
                                  auth.status, auth.detail)
         /\ UNCHANGED <<users, voters, audit_log, tokens, SECRET_KEY, now, pure, pending>>
  ELSE IF voter_id \notin DOMAIN voters
    THEN /\ resp' = HTTPException(Request("get_voter", token, voter_id, None), auth.user, 404,
                                  "Voter not found")
         /\ UNCHANGED <<users, voters, audit_log, tokens, SECRET_KEY, now, pure, pending>>
  ELSE IF dun_access_denied(auth.user, voters[voter_id])
    THEN /\ resp' = HTTPException(Request("get_voter", token, voter_id, None), auth.user, 403,
                                  "Access denied to this voter's DUN")
         /\ UNCHANGED <<users, voters, audit_log, tokens, SECRET_KEY, now, pure, pending>>
  ELSE /\ audit_log' = audit_insert(audit_log,
                                    AuditEntry(auth.user.id, "view", "voters", voter_id))
       /\ resp' = Response(Request("get_voter", token, voter_id, None), auth.user, 200, None,
                           <<voter_id>>, NoStats, <<>>)
       /\ UNCHANGED <<users, voters, tokens, SECRET_KEY, now, pure, pending>>

\* the capability test of update_voter
may_update_voters_Always(current_user) == TRUE

may_update_voters(current_user) == check_permission(current_user.role, "update_voters")

\* the row update of update_voter writes the tag and the time of the write
\* (the fetch and the write are one step here, so the written row exists and the
\* "Update failed" answer for an empty write result does not arise); the audit
\* row of the update is not inserted by the handler but "created automatically
\* by trigger"
update_voter(token, voter_id, tag) ==
  LET auth == get_current_user(token) IN
  IF ~auth.ok
    THEN /\ resp' = HTTPException(Request("update_voter", token, voter_id, None), NoPrincipal,
                                  auth.status, auth.detail)
         /\ UNCHANGED <<users, voters, audit_log, tokens, SECRET_KEY, now, pure, pending>>
  ELSE IF ~may_update_voters(auth.user)
    THEN /\ resp' = HTTPException(Request("update_voter", token, voter_id, None), auth.user, 403,
                                  "You don't have permission to update voters")
         /\ UNCHANGED <<users, voters, audit_log, tokens, SECRET_KEY, now, pure, pending>>
  ELSE IF voter_id \notin DOMAIN voters
    THEN /\ resp' = HTTPException(Request("update_voter", token, voter_id, None), auth.user, 404,
                                  "Voter not found")
         /\ UNCHANGED <<users, voters, audit_log, tokens, SECRET_KEY, now, pure, pending>>
  ELSE IF dun_access_denied(auth.user, voters[voter_id])
    THEN /\ resp' = HTTPException(Request("update_voter", token, voter_id, None), auth.user, 403,
                                  "Cannot update voter from different DUN")
         /\ UNCHANGED <<users, voters, audit_log, tokens, SECRET_KEY, now, pure, pending>>
  ELSE /\ voters' = [voters EXCEPT ![voter_id].tag = tag, ![voter_id].updated_at = now]
       /\ audit_log' = voters_update_trigger(audit_log, auth.user.id, voter_id)
       /\ resp' = Response(Request("update_voter", token, voter_id, None), auth.user, 200, None,
                           <<voter_id>>, NoStats, <<>>)
       /\ UNCHANGED <<users, tokens, SECRET_KEY, now, pure, pending>>


(* ---------------------------------------------------------------------- *)
(* api/main.py: get_statistics, get_daerah_list, get_lokaliti_list         *)
(* ---------------------------------------------------------------------- *)

\* rows of the "Apply DUN filter" query of the three aggregate handlers
dun_filtered_rows(current_user) ==
  {v \in DOMAIN voters :
     current_user.role # "super_admin" => StoreEq(voters[v].dun, current_user.dun)}

CountTag(rows, tag) == Cardinality({v \in rows : voters[v].tag = tag})

\* the counts of the statistics object (the percentages are functions of them)
Statistics(current_user, rows) ==
  LET total == Cardinality(rows)
      yes_count == CountTag(rows, "Yes")
      unsure_count == CountTag(rows, "Unsure")
      no_count == CountTag(rows, "No")
  IN [dun |-> current_user.dun, total |-> total, yes |-> yes_count,
      unsure |-> unsure_count, no |-> no_count,
      untagged |-> total - yes_count - unsure_count - no_count]

get_statistics(token) ==
  LET auth == get_current_user(token) IN
  IF ~auth.ok
    THEN /\ resp' = HTTPException(Request("get_statistics", token, 0, None), NoPrincipal,
                                  auth.status, auth.detail)
         /\ UNCHANGED <<users, voters, audit_log, tokens, SECRET_KEY, now, pure, pending>>
  ELSE /\ audit_log' = audit_insert(audit_log,
                                    AuditEntry(auth.user.id, "view_stats", None, 0))
       /\ resp' = Response(Request("get_statistics", token, 0, None), auth.user, 200, None, <<>>,
                           Statistics(auth.user, dun_filtered_rows(auth.user)), <<>>)
       /\ UNCHANGED <<users, voters, tokens, SECRET_KEY, now, pure, pending>>

\* position of a place name or dun name in Python's string order
NameRank(name) ==
  CASE name = "Kawang" -> 1 [] name = "Kg Laut" -> 2 [] name = "Kinarut" -> 3
    [] name = "Limbahau" -> 4 [] name = "Papar" -> 5

RECURSIVE Sorted(_)
\* sorted(names)
Sorted(names) ==
  IF names = {} THEN <<>>
  ELSE LET first == CHOOSE n \in names : \A m \in names : NameRank(n) <= NameRank(m)
       IN <<first>> \o Sorted(names \ {first})

get_daerah_list(token) ==
  LET auth == get_current_user(token) IN
  IF ~auth.ok
    THEN /\ resp' = HTTPException(Request("get_daerah_list", token, 0, None), NoPrincipal,
                                  auth.status, auth.detail)
         /\ UNCHANGED <<users, voters, audit_log, tokens, SECRET_KEY, now, pure, pending>>
  ELSE LET unique_daerah == {voters[v].daerah_mengundi :
                               v \in {w \in dun_filtered_rows(auth.user) :
                                        Truthy(voters[w].daerah_mengundi)}}
       IN /\ resp' = Response(Request("get_daerah_list", token, 0, None), auth.user, 200, None,
                              <<>>, NoStats, Sorted(unique_daerah))
          /\ UNCHANGED <<users, voters, audit_log, tokens, SECRET_KEY, now, pure, pending>>

get_lokaliti_list(token) ==
  LET auth == get_current_user(token) IN
  IF ~auth.ok
    THEN /\ resp' = HTTPException(Request("get_lokaliti_list", token, 0, None), NoPrincipal,
                                  auth.status, auth.detail)
         /\ UNCHANGED <<users, voters, audit_log, tokens, SECRET_KEY, now, pure, pending>>
  ELSE LET unique_lokaliti == {voters[v].lokaliti :
                                 v \in {w \in dun_filtered_rows(auth.user) :
                                          Truthy(voters[w].lokaliti)}}
       IN /\ resp' = Response(Request("get_lokaliti_list", token, 0, None), auth.user, 200, None,
                              <<>>, NoStats, Sorted(unique_lokaliti))
          /\ UNCHANGED <<users, voters, audit_log, tokens, SECRET_KEY, now, pure, pending>>

\* a dun list that first fills in the duns that are unset
get_dun_list_FillsUnset(token) ==
  LET auth == get_current_user(token)
      request == Request("get_dun_list", token, 0, None)
  IN
  IF ~auth.ok
    THEN /\ resp' = HTTPException(request, NoPrincipal, auth.status, auth.detail)
         /\ UNCHANGED <<users, voters, audit_log, tokens, SECRET_KEY, now, pure, pending>>
  ELSE IF auth.user.role # "super_admin"
    THEN /\ resp' = HTTPException(request, auth.user, 403,
                                  "Only super admin can view all DUNs")
         /\ UNCHANGED <<users, voters, audit_log, tokens, SECRET_KEY, now, pure, pending>>
  ELSE /\ voters' = [v \in DOMAIN voters |->
                       IF Truthy(voters[v].dun) THEN voters[v]
                       ELSE [voters[v] EXCEPT !.dun = "Kawang"]]
       /\ resp' = Response(request, auth.user, 200, None, <<>>, NoStats,
                           Sorted({voters[v].dun : v \in DOMAIN voters} \ {None}))
       /\ UNCHANGED <<users, audit_log, tokens, SECRET_KEY, now, pure, pending>>

\* the role test of get_dun_list is outside its try block
get_dun_list(token) ==
  LET auth == get_current_user(token)
      request == Request("get_dun_list", token, 0, None)
  IN
  /\ resp' = IF ~auth.ok
               THEN HTTPException(request, NoPrincipal, auth.status, auth.detail)
             ELSE IF auth.user.role # "super_admin"
               THEN HTTPException(request, auth.user, 403,
                                  "Only super admin can view all DUNs")
             ELSE LET unique_duns == {voters[v].dun :
                                        v \in {w \in DOMAIN voters : Truthy(voters[w].dun)}}
                  IN Response(request, auth.user, 200, None, <<>>, NoStats,
                              Sorted(unique_duns))
  /\ UNCHANGED <<users, voters, audit_log, tokens, SECRET_KEY, now, pure, pending>>

(* ---------------------------------------------------------------------- *)
(* api/main.py: get_audit_logs, get_user_activity                          *)
(* ---------------------------------------------------------------------- *)

\* page size of get_audit_logs and row limit of get_user_activity
AuditPageLimit == 50
ActivityLimit == 20

RECURSIVE NewestFirst(_, _)
\* .order('created_at', desc=True): the positions in audit_log, from 1 (the
\* oldest entry) to n, of the entries of the users `owners`, newest first
NewestFirst(n, owners) ==
  IF n = 0 THEN <<>>
  ELSE (IF audit_log[n].user_id \in owners THEN <<n>> ELSE <<>>)
         \o NewestFirst(n - 1, owners)

\* an audit log listing without the require_permission dependency
get_audit_logs_Open(token) ==
  LET auth == get_current_user(token)
      request == Request("get_audit_logs", token, 0, None)
      everyone == {audit_log[i].user_id : i \in 1..Len(audit_log)}
  IN
  /\ resp' = IF ~auth.ok
               THEN HTTPException(request, NoPrincipal, auth.status, auth.detail)
             ELSE Response(request, auth.user, 200, None,
                           StoreRange(NewestFirst(Len(audit_log), everyone),
                                      0, AuditPageLimit - 1),
                           NoStats, <<>>)
  /\ UNCHANGED <<users, voters, audit_log, tokens, SECRET_KEY, now, pure, pending>>

\* the dependency require_permission('view_audit_logs') precedes the handler
get_audit_logs(token) ==
  LET auth == get_current_user(token)
      request == Request("get_audit_logs", token, 0, None)
      everyone == {audit_log[i].user_id : i \in 1..Len(audit_log)}
  IN
  /\ resp' = IF ~auth.ok
               THEN HTTPException(request, NoPrincipal, auth.status, auth.detail)
             ELSE IF ~check_permission(auth.user.role, "view_audit_logs")
               THEN HTTPException(request, auth.user, 403,
                                  "Permission denied: view_audit_logs required")
             ELSE Response(request, auth.user, 200, None,
                           StoreRange(NewestFirst(Len(audit_log), everyone),
                                      0, AuditPageLimit - 1),
                           NoStats, <<>>)
  /\ UNCHANGED <<users, voters, audit_log, tokens, SECRET_KEY, now, pure, pending>>

get_user_activity(token) ==
  LET auth == get_current_user(token)
      request == Request("get_user_activity", token, 0, None)
  IN
  /\ resp' = IF ~auth.ok
               THEN HTTPException(request, NoPrincipal, auth.status, auth.detail)
               ELSE Response(request, auth.user, 200, None,
                             StoreRange(NewestFirst(Len(audit_log), {auth.user.id}),
                                        0, ActivityLimit - 1),
                             NoStats, <<>>)
  /\ UNCHANGED <<users, voters, audit_log, tokens, SECRET_KEY, now, pure, pending>>

(* ---------------------------------------------------------------------- *)
(* utils/password_manager.py: toggle_user_status (the administrator's      *)
(* enable/disable of an account, made outside the API)                     *)
(* ---------------------------------------------------------------------- *)

toggle_user_status(username) ==
  LET found == UsersByUsername(username) IN
  /\ found # {}
  /\ LET u == CHOOSE w \in found : TRUE IN
       /\ users' = [users EXCEPT ![u].is_active = ~users[u].is_active]
       /\ audit_log' = audit_insert(audit_log,
                                    AuditEntry(u, "user_status_changed", None, 0))
  /\ UNCHANGED <<voters, tokens, SECRET_KEY, now, resp, pure, pending>>

(* ---------------------------------------------------------------------- *)
(* api/auth.py: get_me, change_password, logout                            *)
(* ---------------------------------------------------------------------- *)

\* the row of the users table is what /me answers when it finds one
get_me(token) ==
  LET auth == get_current_user(token)
      request == Request("get_me", token, 0, None)
  IN
  /\ resp' = IF ~auth.ok
               THEN HTTPException(request, NoPrincipal, auth.status, auth.detail)
             ELSE IF auth.user.id \in DOMAIN users
               THEN LET user == users[auth.user.id] IN
                    Response(request, [id |-> user.id, username |-> user.username,
                                       role |-> user.role, dun |-> user.dun,
                                       user_id |-> user.id],
                             200, None, <<>>, NoStats, <<>>)
             ELSE Response(request, auth.user, 200, None, <<>>, NoStats, <<>>)
  /\ UNCHANGED <<users, voters, audit_log, tokens, SECRET_KEY, now, pure, pending>>

\* change_password that skips the "Verify current password" test
change_password_NoVerify(token, current_password, new_password) ==
  LET auth == get_current_user(token)
      request == BodyRequest("change_password", token,
                             Body(None, current_password, new_password))
  IN
  IF ~auth.ok
    THEN /\ resp' = HTTPException(request, NoPrincipal, auth.status, auth.detail)
         /\ UNCHANGED <<users, voters, audit_log, tokens, SECRET_KEY, now, pure, pending>>
  ELSE LET user_id == auth.user.user_id IN
    IF Len(new_password) < 8
      THEN /\ resp' = HTTPException(request, auth.user, 400,
                                    "New password must be at least 8 characters long")
           /\ UNCHANGED <<users, voters, audit_log, tokens, SECRET_KEY, now, pure, pending>>
    ELSE IF current_password = new_password
      THEN /\ resp' = HTTPException(request, auth.user, 400,
                                    "New password must be different from current password")
           /\ UNCHANGED <<users, voters, audit_log, tokens, SECRET_KEY, now, pure, pending>>
    ELSE /\ users' = [users EXCEPT ![user_id].password_hash = hash_password(new_password),
                                   ![user_id].must_change_password = FALSE]
         /\ audit_log' = audit_insert(audit_log,
                                      AuditEntry(user_id, "password_changed", "users", 0))
         /\ resp' = Response(request, auth.user, 200, None, <<>>, NoStats, <<>>)
         /\ UNCHANGED <<voters, tokens, SECRET_KEY, now, pure, pending>>

\* change_password whose update has no .eq("id", user_id) filter
change_password_AllRows(token, current_password, new_password) ==
  LET auth == get_current_user(token)
      request == BodyRequest("change_password", token,
                             Body(None, current_password, new_password))
  IN
  IF ~auth.ok
    THEN /\ resp' = HTTPException(request, NoPrincipal, auth.status, auth.detail)
         /\ UNCHANGED <<users, voters, audit_log, tokens, SECRET_KEY, now, pure, pending>>
  ELSE LET user_id == auth.user.user_id IN
    IF ~verify_password(current_password, users[user_id].password_hash)
      THEN /\ resp' = HTTPException(request, auth.user, 401, "Current password is incorrect")
           /\ UNCHANGED <<users, voters, audit_log, tokens, SECRET_KEY, now, pure, pending>>
    ELSE IF Len(new_password) < 8
      THEN /\ resp' = HTTPException(request, auth.user, 400,
                                    "New password must be at least 8 characters long")
           /\ UNCHANGED <<users, voters, audit_log, tokens, SECRET_KEY, now, pure, pending>>
    ELSE IF current_password = new_password
      THEN /\ resp' = HTTPException(request, auth.user, 400,
                                    "New password must be different from current password")
           /\ UNCHANGED <<users, voters, audit_log, tokens, SECRET_KEY, now, pure, pending>>
    ELSE /\ users' = [u \in DOMAIN users |->
                        [users[u] EXCEPT !.password_hash = hash_password(new_password),
                                         !.must_change_password = FALSE]]
         /\ audit_log' = audit_insert(audit_log,
                                      AuditEntry(user_id, "password_changed", "users", 0))
         /\ resp' = Response(request, auth.user, 200, None, <<>>, NoStats, <<>>)
         /\ UNCHANGED <<voters, tokens, SECRET_KEY, now, pure, pending>>

change_password(token, current_password, new_password) ==
  LET auth == get_current_user(token)
      request == BodyRequest("change_password", token,
                             Body(None, current_password, new_password))
  IN
  IF ~auth.ok
    THEN /\ resp' = HTTPException(request, NoPrincipal, auth.status, auth.detail)
         /\ UNCHANGED <<users, voters, audit_log, tokens, SECRET_KEY, now, pure, pending>>
  ELSE LET user_id == auth.user.user_id IN
    IF user_id \notin DOMAIN users
      THEN /\ resp' = HTTPException(request, auth.user, 404, "User not found")
           /\ UNCHANGED <<users, voters, audit_log, tokens, SECRET_KEY, now, pure, pending>>
    ELSE IF ~verify_password(current_password, users[user_id].password_hash)
      THEN /\ resp' = HTTPException(request, auth.user, 401, "Current password is incorrect")
           /\ UNCHANGED <<users, voters, audit_log, tokens, SECRET_KEY, now, pure, pending>>
    ELSE IF Len(new_password) < 8
      THEN /\ resp' = HTTPException(request, auth.user, 400,
                                    "New password must be at least 8 characters long")
           /\ UNCHANGED <<users, voters, audit_log, tokens, SECRET_KEY, now, pure, pending>>
    ELSE IF current_password = new_password
      THEN /\ resp' = HTTPException(request, auth.user, 400,
                                    "New password must be different from current password")
           /\ UNCHANGED <<users, voters, audit_log, tokens, SECRET_KEY, now, pure, pending>>
    ELSE /\ users' = [users EXCEPT ![user_id].password_hash = hash_password(new_password),
                                   ![user_id].must_change_password = FALSE]
         /\ audit_log' = audit_insert(audit_log,
                                      AuditEntry(user_id, "password_changed", "users", 0))
         /\ resp' = Response(request, auth.user, 200, None, <<>>, NoStats, <<>>)
         /\ UNCHANGED <<voters, tokens, SECRET_KEY, now, pure, pending>>

\* logout that ends every session by changing the signing key
logout_RotatesKey(token) ==
  LET auth == get_current_user(token)
      request == Request("logout", token, 0, None)
  IN
  IF ~auth.ok
    THEN /\ resp' = HTTPException(request, NoPrincipal, auth.status, auth.detail)
         /\ UNCHANGED <<users, voters, audit_log, tokens, SECRET_KEY, now, pure, pending>>
    ELSE /\ resp' = Response(request, auth.user, 200, None, <<>>, NoStats, <<>>)
         /\ SECRET_KEY' = SECRET_KEY + 1
         /\ UNCHANGED <<users, voters, audit_log, tokens, now, pure, pending>>

\* "token invalidation handled client-side": the server keeps nothing
logout(token) ==
  LET auth == get_current_user(token)
      request == Request("logout", token, 0, None)
  IN
  /\ resp' = IF ~auth.ok
               THEN HTTPException(request, NoPrincipal, auth.status, auth.detail)
               ELSE Response(request, auth.user, 200, None, <<>>, NoStats, <<>>)
  /\ UNCHANGED <<users, voters, audit_log, tokens, SECRET_KEY, now, pure, pending>>

(* ---------------------------------------------------------------------- *)
(* The system                                                              *)
(* ---------------------------------------------------------------------- *)

NotApplied == [fn |-> "none", role |-> None, permission |-> None, user_dun |-> None,
               target_dun |-> None, result |-> FALSE]

\* the tags of the voters when the model starts
InitialTag(v) == CASE v = 1 -> "Yes" [] v = 2 -> "No" [] v = 3 -> None

\* one account of any role and dun; three voters, of two DUNs and of none
\* no handler is between two of its store calls
NoPending == [op |-> "none"]

InitStore ==
  /\ users \in
       {[u \in UserIds |->
           [id |-> u, username |-> "user1", password_hash |-> hash_password("Kawang2024"),
            role |-> r, dun |-> d, is_active |-> TRUE, must_change_password |-> FALSE]] :
          r \in Roles, d \in UserDuns}
  /\ voters = [v \in VoterIds |-> VoterRow(v, InitialTag(v), 0)]
  /\ audit_log = <<>>
  /\ tokens = {}
  /\ SECRET_KEY = 1
  /\ now = 0
  /\ resp = NoResponse
  /\ pending = NoPending

Init == InitStore /\ pure = NotApplied

\* a bearer token a caller may present: one that was issued, or a bad one
RequestTokens == tokens \cup {BadToken}

\* the step leaves audit_log no longer than `longest`
AuditWithin(longest) == Len(audit_log') <= longest

Next ==
  \/ \E username \in UsernameInputs, password \in PasswordInputs : login(username, password)
  \/ \E token \in RequestTokens, p \in VoterQueryInputs :
       get_voters(token, p) /\ AuditWithin(MaxAudit)
  \/ \E token \in RequestTokens, voter_id \in VoterIdInputs :
       get_voter(token, voter_id) /\ AuditWithin(MaxAudit)
  \/ \E token \in RequestTokens, voter_id \in VoterIdInputs, tag \in TagInputs :
       update_voter(token, voter_id, tag) /\ AuditWithin(MaxAudit)
  \/ \E token \in RequestTokens : get_statistics(token) /\ AuditWithin(MaxAudit)
  \/ \E token \in RequestTokens : get_daerah_list(token)
  \/ \E token \in RequestTokens : get_lokaliti_list(token)
  \/ \E username \in Usernames : toggle_user_status(username) /\ AuditWithin(MaxAudit)

Spec == Init /\ [][Next]_vars


(* ---------------------------------------------------------------------- *)
(* The pure functions of utils/auth.py, applied to every input             *)
(* ---------------------------------------------------------------------- *)

PureInputs ==
  [fn : {"none"}, role : Roles, permission : CapabilityInputs, user_dun : UserDuns,
   target_dun : UserDuns, result : {FALSE}]

InitPure ==
  /\ InitStore
  /\ users[1].role = "pdm" /\ users[1].dun = "Kawang"
  /\ pure \in PureInputs

apply_check_permission ==
  /\ pure.fn = "none"
  /\ pure' = [pure EXCEPT !.fn = "check_permission",
                          !.result = check_permission(pure.role, pure.permission)]
  /\ UNCHANGED <<users, voters, audit_log, tokens, SECRET_KEY, now, resp, pending>>

apply_can_access_dun ==
  /\ pure.fn = "none"
  /\ pure' = [pure EXCEPT !.fn = "can_access_dun",
                          !.result = can_access_dun(pure.role, pure.user_dun,
                                                    pure.target_dun)]
  /\ UNCHANGED <<users, voters, audit_log, tokens, SECRET_KEY, now, resp, pending>>

NextPure == apply_check_permission \/ apply_can_access_dun

SpecPure == InitPure /\ [][NextPure]_vars

(* ---------------------------------------------------------------------- *)
(* Two accounts that use every operation, the password change included     *)
(* ---------------------------------------------------------------------- *)

AccountIds == {1, 2}
AccountUsernames == {"user1", "user2"}
\* "short" has fewer than 8 characters
NewPasswordInputs == PasswordInputs \cup {"short"}
\* the list query of this specification sets no parameter
AccountQueryInputs == {NoFilters}
\* voter ids a request of this specification names: a row of Kawang, or no row
AccountVoterIdInputs == {1, 4}

\* user1, the pdm of Kawang, still has its default password and must change
\* it; user2 is the super_admin
InitAccount ==
  /\ users =
       [u \in AccountIds |->
          IF u = 1
            THEN [id |-> 1, username |-> "user1",
                  password_hash |-> hash_password("Kawang2024"), role |-> "pdm",
                  dun |-> "Kawang", is_active |-> TRUE, must_change_password |-> TRUE]
            ELSE [id |-> 2, username |-> "user2",
                  password_hash |-> hash_password("Admin123!"), role |-> "super_admin",
                  dun |-> None, is_active |-> TRUE, must_change_password |-> FALSE]]
  /\ voters = [v \in VoterIds |-> VoterRow(v, InitialTag(v), 0)]
  /\ audit_log = <<>>
  /\ tokens = {}
  /\ SECRET_KEY = 1
  /\ now = 0
  /\ resp = NoResponse
  /\ pending = NoPending
  /\ pure = NotApplied

NextAccount ==
  \/ \E username \in AccountUsernames, password \in PasswordInputs : login(username, password)
  \/ \E token \in RequestTokens, p \in AccountQueryInputs :
       get_voters(token, p) /\ AuditWithin(MaxAccountAudit)
  \/ \E token \in RequestTokens, voter_id \in AccountVoterIdInputs :
       get_voter(token, voter_id) /\ AuditWithin(MaxAccountAudit)
  \/ \E token \in RequestTokens, voter_id \in AccountVoterIdInputs :
       update_voter(token, voter_id, "Maybe") /\ AuditWithin(MaxAccountAudit)
  \/ \E token \in RequestTokens : get_statistics(token) /\ AuditWithin(MaxAccountAudit)
  \/ \E token \in RequestTokens : get_daerah_list(token)
  \/ \E token \in RequestTokens : get_lokaliti_list(token)
  \/ \E token \in RequestTokens : get_audit_logs(token)
  \/ \E token \in RequestTokens : get_user_activity(token)
  \/ \E token \in RequestTokens : get_me(token)
  \/ \E token \in RequestTokens : logout(token)
  \/ \E token \in RequestTokens, current_password \in PasswordInputs,
        new_password \in NewPasswordInputs :
       change_password(token, current_password, new_password)
         /\ AuditWithin(MaxAccountAudit)
  \/ toggle_user_status("user1") /\ AuditWithin(MaxAccountAudit)

SpecAccount == InitAccount /\ [][NextAccount]_vars

(* ---------------------------------------------------------------------- *)
(* Sessions over time: the clock advances and the process restarts         *)
(* ---------------------------------------------------------------------- *)

\* an hour passes (datetime.utcnow() is read at every issue and every decode)
Tick ==
  /\ now < MaxTime
  /\ now' = now + 1
  /\ UNCHANGED <<users, voters, audit_log, tokens, SECRET_KEY, resp, pure, pending>>

\* the process starts again: the module is imported anew and SECRET_KEY is
\* drawn afresh by secrets.token_urlsafe(32); clients keep their tokens
Restart ==
  /\ SECRET_KEY <= MaxRestarts
  /\ SECRET_KEY' = SECRET_KEY + 1
  /\ UNCHANGED <<users, voters, audit_log, tokens, now, resp, pure, pending>>

\* one account, the pdm of Kawang
InitSession ==
  /\ InitStore
  /\ users[1].role = "pdm" /\ users[1].dun = "Kawang"
  /\ pure = NotApplied

NextSession ==
  \/ \E password \in PasswordInputs : login("user1", password)
  \/ Tick
  \/ Restart
  \/ \E token \in RequestTokens : get_me(token)
  \/ \E token \in RequestTokens : logout(token)
  \/ \E token \in RequestTokens :
       change_password(token, "Kawang2024", "Admin123!") /\ AuditWithin(MaxAudit)
  \/ toggle_user_status("user1") /\ AuditWithin(MaxAudit)

SpecSession == InitSession /\ [][NextSession]_vars

(* ---------------------------------------------------------------------- *)
(* Properties                                                              *)
(* ---------------------------------------------------------------------- *)

\* the last request got past get_current_user
Authorized == resp.principal # NoPrincipal

\* the principal of the last request is not super_admin and has no dun
PrincipalWithoutDun ==
  /\ Authorized
  /\ resp.principal.role # "super_admin"
  /\ ~Truthy(resp.principal.dun)

\* the voter the last request named is a row of the table
VoterExists == resp.voter_id \in DOMAIN voters

\* the scope rule of the specification, for the voter the last request named
InScope ==
  resp.principal.role = "super_admin" \/ voters[resp.voter_id].dun = resp.principal.dun

\* the permission table has a true update_voters entry for the role
TableGrants(role) ==
  /\ role \in DOMAIN PERMISSIONS
  /\ "update_voters" \in DOMAIN PERMISSIONS[role]
  /\ PERMISSIONS[role]["update_voters"]

\* the permission table grants update_voters to the role of the last request
TableGrantsUpdate == TableGrants(resp.principal.role)

\* C1: every row a successful get_voters returns to a principal that is not
\* super_admin has the principal's dun, whatever query parameters (the dun
\* parameter included) the request carried.
C1_ListScoping ==
  (resp.op = "get_voters" /\ Authorized /\ resp.principal.role # "super_admin") =>
    \A i \in 1..Len(resp.data) : voters[resp.data[i]].dun = resp.principal.dun

\* a principal of Kawang asked for the rows of Limbahau and got its own row
C1_Witness ==
  /\ resp.op = "get_voters" /\ resp.status = 200
  /\ resp.principal.role = "pdm" /\ resp.principal.dun = "Kawang"
  /\ resp.dun = "Limbahau"
  /\ resp.data = <<1>>

\* C2: can_access_dun is true for super_admin, and for any other role it is
\* true exactly when the user dun equals the resource dun (unset included).
C2_ScopePredicate ==
  pure.fn = "can_access_dun" =>
    (pure.result <=> (pure.role = "super_admin" \/ pure.user_dun = pure.target_dun))

\* can_access_dun applied to a user and a resource that both have no dun
C2_Witness ==
  /\ pure.fn = "can_access_dun" /\ pure.role = "candidate"
  /\ pure.user_dun = None /\ pure.target_dun = None
  /\ pure.result

\* C3: a principal that is not super_admin and has no dun gets no voter data
\* from, and changes no voter through, any of the six resource-scoped
\* operations.
C3_NoDunAuthorizesNothing ==
  (PrincipalWithoutDun /\ resp.op \in {"get_voters", "get_voter", "update_voter",
                                       "get_statistics", "get_daerah_list",
                                       "get_lokaliti_list"}) =>
    /\ resp.data = <<>>
    /\ resp.stats.total = 0
    /\ resp.names = <<>>

ProtectedRequestStep ==
  /\ users' = users
  /\ resp'.op \in {"get_voters", "get_voter", "update_voter", "get_statistics",
                   "get_daerah_list", "get_lokaliti_list"}

\* C5: a request that carries the unexpired, correctly signed token of a
\* user whose is_active flag is false is answered 403 (not 401), returns no
\* voter data, changes no voter and writes no audit entry.
C5_DeactivationTakesEffect ==
  [][(/\ ProtectedRequestStep
      /\ verify_token(resp'.token) # NoPayload
      /\ resp'.token.user_id \in DOMAIN users
      /\ ~users[resp'.token.user_id].is_active) =>
       /\ resp'.status = 403
       /\ resp'.detail = "User account is inactive"
       /\ resp'.data = <<>> /\ resp'.stats = NoStats /\ resp'.names = <<>>
       /\ voters' = voters
       /\ audit_log' = audit_log]_vars

\* the token of a deactivated user was refused with 403
C5_Witness ==
  /\ resp.op = "update_voter" /\ resp.status = 403
  /\ resp.token \in tokens /\ verify_token(resp.token) # NoPayload
  /\ ~users[resp.token.user_id].is_active
  /\ resp.detail = "User account is inactive"

\* C6: check_permission equals the lookup in the PERMISSIONS table, and is
\* false for a role the table does not list and for a capability no entry names.
C6_TableLookup ==
  pure.fn = "check_permission" =>
    /\ pure.result <=> /\ pure.role \in DOMAIN PERMISSIONS
                       /\ pure.permission \in DOMAIN PERMISSIONS[pure.role]
                       /\ PERMISSIONS[pure.role][pure.permission]
    /\ pure.role \notin KnownRoles => ~pure.result
    /\ pure.permission \notin Capabilities => ~pure.result

\* check_permission applied to a role the table does not list
C6_Witness ==
  /\ pure.fn = "check_permission" /\ pure.role = "observer"
  /\ pure.permission = "update_voters" /\ ~pure.result

\* C7 as stated: every one of the five roles has an explicit entry for every
\* one of the eight capabilities.
C7_TableTotal ==
  (pure.fn = "check_permission" /\ pure.role \in KnownRoles
     /\ pure.permission \in Capabilities) =>
    /\ pure.role \in DOMAIN PERMISSIONS
    /\ pure.permission \in DOMAIN PERMISSIONS[pure.role]

\* C7 amended: the table lists exactly the five roles; a role's entries name
\* every one of the eight capabilities except view_own_dun and export_own_dun
\* for super_admin and export_all for the other four roles; check_permission
\* is false for each of these missing entries.
C7_TableTotalByDefault ==
  /\ DOMAIN PERMISSIONS = KnownRoles
  /\ (pure.fn = "check_permission" /\ pure.role \in KnownRoles
        /\ pure.permission \in Capabilities) =>
       LET missing == IF pure.role = "super_admin"
                        THEN pure.permission \in {"view_own_dun", "export_own_dun"}
                        ELSE pure.permission = "export_all"
       IN /\ pure.permission \notin DOMAIN PERMISSIONS[pure.role] <=> missing
          /\ missing => ~pure.result

\* check_permission applied to an entry the table does not have
C7_Witness ==
  /\ pure.fn = "check_permission" /\ pure.role = "super_admin"
  /\ pure.permission = "view_own_dun" /\ ~pure.result

\* C8: get_voter answers an authenticated principal with the voter when it
\* exists and is in scope, with 404 when no voter has the id, and with 403
\* when the voter exists out of scope; the 403 is the same response whatever
\* the voter's dun.
C8_GetVoterOutcome ==
  (resp.op = "get_voter" /\ Authorized) =>
    IF ~VoterExists
      THEN resp.status = 404 /\ resp.data = <<>>
    ELSE IF InScope
      THEN resp.status = 200 /\ resp.data = <<resp.voter_id>>
    ELSE /\ resp.status = 403
         /\ resp.detail = "Access denied to this voter's DUN"
         /\ resp.data = <<>> /\ resp.stats = NoStats /\ resp.names = <<>>

\* a principal of Limbahau was refused a voter of Kawang
C8_Witness ==
  /\ resp.op = "get_voter" /\ resp.status = 403
  /\ resp.principal.role = "candidate" /\ resp.principal.dun = "Limbahau"
  /\ resp.voter_id = 1

\* C9 as stated: for a principal that is not super_admin and has no dun,
\* get_voters completes successfully with zero rows.
C9_EmptyListForNoDun ==
  (resp.op = "get_voters" /\ PrincipalWithoutDun) =>
    resp.status = 200 /\ resp.data = <<>>

\* C9 amended: for a principal that is not super_admin and has no dun,
\* get_voters returns zero rows because it is refused with 403
\* "User has no DUN assignment"; it does not complete successfully.
C9_NoDunListRefused ==
  (resp.op = "get_voters" /\ PrincipalWithoutDun) =>
    /\ resp.status = 403
    /\ resp.detail = "User has no DUN assignment"
    /\ resp.data = <<>>

\* a principal without dun asked for the list
C9_Witness ==
  /\ resp.op = "get_voters" /\ PrincipalWithoutDun
  /\ resp.principal.role = "pdm" /\ resp.principal.dun = None
  /\ resp.status = 403

\* C10: for a principal that is not super_admin and has no dun, get_voter and
\* update_voter (by a role that may update) on an existing voter are refused,
\* with a detail that is neither the not-found one nor the cross-DUN one.
C10_NoDunDistinctDenial ==
  (/\ PrincipalWithoutDun /\ VoterExists
   /\ \/ resp.op = "get_voter"
      \/ resp.op = "update_voter" /\ TableGrantsUpdate) =>
    /\ resp.status = 403
    /\ resp.detail \notin {"Voter not found", "Access denied to this voter's DUN",
                           "Cannot update voter from different DUN"}

\* C11: a request that ends in a non-allowed outcome writes no audit entry and
\* changes no voter, and its outcome is that of the first check that fails in
\* the order token, principal, account state, capability: a rejected token is
\* answered 401 whatever else is wrong with the request, a missing principal
\* 401, an inactive one 403, and an update by a role without the capability
\* 403 even when the voter does not exist or is out of scope.
C11_OnlyAllowedAudited ==
  [][ProtectedRequestStep =>
       LET t == resp'.token
           tokenOk == t.key = SECRET_KEY /\ t.exp >= now
           loaded == tokenOk /\ t.user_id \in DOMAIN users
           active == loaded /\ users[t.user_id].is_active
       IN /\ resp'.status # 200 => audit_log' = audit_log /\ voters' = voters
          /\ audit_log' # audit_log => resp'.status = 200
          /\ ~tokenOk => /\ resp'.status = 401
                         /\ resp'.detail = "Invalid authentication credentials"
          /\ (tokenOk /\ ~loaded) => resp'.status = 401 /\ resp'.detail = "User not found"
          /\ (loaded /\ ~active) =>
               resp'.status = 403 /\ resp'.detail = "User account is inactive"
          /\ (active /\ resp'.op = "update_voter" /\ ~TableGrants(t.role)) =>
               /\ resp'.status = 403
               /\ resp'.detail = "You don't have permission to update voters"]_vars

\* a role without the capability asked to update a voter that does not exist:
\* it was told 403, not 404, and nothing was logged
C11_Witness ==
  /\ resp.op = "update_voter" /\ resp.voter_id \notin DOMAIN voters
  /\ resp.principal.role = "super_user"
  /\ resp.status = 403 /\ resp.detail = "You don't have permission to update voters"
  /\ audit_log = <<>>

\* a step of the API: the administrator's tool, which is the only thing that
\* writes is_active, did not act
RequestStep == \A u \in DOMAIN users : users'[u].is_active = users[u].is_active

\* the step appended exactly one entry to audit_log
Appended ==
  /\ Len(audit_log') = Len(audit_log) + 1
  /\ SubSeq(audit_log', 1, Len(audit_log)) = audit_log

C13_AppendOnly ==
  [][/\ Len(audit_log') >= Len(audit_log)
     /\ SubSeq(audit_log', 1, Len(audit_log)) = audit_log]_vars

\* a password change was logged after a view, and the view is still there
C13_Witness ==
  /\ Len(audit_log) = 2
  /\ audit_log[1] = AuditEntry(2, "view", "voters", 1)
  /\ audit_log[2] = AuditEntry(2, "password_changed", "users", 0)
  /\ resp.op = "get_audit_logs" /\ resp.status = 200 /\ resp.data = <<2, 1>>

\* C19: an authenticated change_password is answered 401 when the current
\* password does not verify against the stored digest, else 400 when the new
\* password has fewer than 8 characters, else 400 when it equals the current
\* one; a change_password that fails leaves the users table and the audit
\* log as they were.
C19_ChangePasswordFailures ==
  [][(RequestStep /\ resp'.op = "change_password") =>
       /\ resp'.status # 200 => users' = users /\ audit_log' = audit_log
       /\ resp'.principal # NoPrincipal =>
            LET stored == users[resp'.principal.id].password_hash
                current == resp'.body.password
                new == resp'.body.new_password
            IN IF stored # hash_password(current) THEN resp'.status = 401
               ELSE IF Len(new) < 8 THEN resp'.status = 400
               ELSE IF new = current THEN resp'.status = 400
               ELSE resp'.status = 200]_vars

\* user1 asked to change its password to the one it has: refused with 400,
\* and it still must change its password
C19_Witness ==
  /\ resp.op = "change_password" /\ resp.status = 400
  /\ resp.principal.id = 1
  /\ resp.body.password = "Kawang2024" /\ resp.body.new_password = "Kawang2024"
  /\ users[1].password_hash = hash_password("Kawang2024")
  /\ users[1].must_change_password
  /\ audit_log = <<>>

\* C20: a successful change_password stores the hash of the new password,
\* clears must_change_password, appends exactly one 'password_changed' entry
\* of that user and changes nothing else of the users table; and login
\* succeeds exactly with the password whose hash is stored (the new one, not
\* the old one, after a change).
C20_ChangePasswordSuccess ==
  /\ [][(RequestStep /\ resp'.op = "change_password" /\ resp'.status = 200) =>
          LET u == resp'.principal.id IN
          /\ users' = [users EXCEPT
                         ![u].password_hash = hash_password(resp'.body.new_password),
                         ![u].must_change_password = FALSE]
          /\ users'[u].password_hash # hash_password(resp'.body.password)
          /\ audit_log' = Append(audit_log, AuditEntry(u, "password_changed", "users", 0))]_vars
  /\ [][(resp'.op = "login" /\ users' = users) =>
          \A u \in DOMAIN users :
            users[u].username = resp'.body.username =>
              (resp'.status = 200 <=>
                 /\ users[u].password_hash = hash_password(resp'.body.password)
                 /\ users[u].is_active)]_vars

\* user1 logged in with a new password while user2 kept its own
C20_Witness ==
  /\ resp.op = "login" /\ resp.status = 200
  /\ resp.body.username = "user1" /\ resp.body.password = "Admin123!"
  /\ ~users[1].must_change_password
  /\ users[2].password_hash = hash_password("Admin123!")
  /\ audit_log = <<AuditEntry(1, "password_changed", "users", 0)>>

\* a step in which a handler behind get_current_user served the request of
\* resp': the clock, the signing key and the is_active flags stayed
SessionRequestStep ==
  /\ RequestStep /\ now' = now /\ SECRET_KEY' = SECRET_KEY
  /\ resp'.op \in {"get_me", "logout", "change_password"}

\* C14: a token is issued with expiry t0 + T, where t0 is the time of the
\* login and T the time-to-live; with the signing key unchanged verify_token
\* accepts it (returns its payload) at every time before t0 + T and rejects
\* it at every time after.
C14_ExpiryBoundary ==
  /\ [][\A t \in tokens' \ tokens : t.exp = now + ACCESS_TOKEN_EXPIRE_HOURS]_vars
  /\ [](\A t \in tokens :
          t.key = SECRET_KEY =>
            /\ now < t.exp => verify_token(t) = t
            /\ now > t.exp => verify_token(t) = NoPayload)

\* a request came with its token one hour after the expiry and was refused
C14_Witness ==
  /\ resp.op = "get_me" /\ resp.status = 401
  /\ resp.token \in tokens /\ resp.token.key = SECRET_KEY
  /\ now = resp.token.exp + 1
  /\ verify_token(resp.token) = NoPayload

\* C15: verify_token accepts no token signed under another key than the
\* current one, and a restart leaves no token issued before it acceptable.
C15_KeyBinding ==
  /\ [](\A t \in RequestTokens : t.key # SECRET_KEY => verify_token(t) = NoPayload)
  /\ [][SECRET_KEY' # SECRET_KEY =>
          \A t \in tokens : (verify_token(t) = NoPayload)']_vars

\* an unexpired token of before the restart was refused after it
C15_Witness ==
  /\ resp.op = "get_me" /\ resp.status = 401
  /\ resp.token \in tokens /\ resp.token.key # SECRET_KEY
  /\ now < resp.token.exp

\* C16: a token of another signing key, a malformed token and an expired
\* token all make verify_token return None, and a request that carries one
\* is answered 401 with the one detail "Invalid authentication credentials",
\* whatever the state of the account it names, and changes nothing.
C16_FailClosedUniform ==
  /\ [](\A t \in RequestTokens :
          (t.key # SECRET_KEY \/ t.exp < now) => verify_token(t) = NoPayload)
  /\ [][(SessionRequestStep
          /\ (resp'.token.key # SECRET_KEY \/ resp'.token.exp < now)) =>
          /\ resp'.status = 401
          /\ resp'.detail = "Invalid authentication credentials"
          /\ resp'.principal = NoPrincipal
          /\ users' = users /\ audit_log' = audit_log /\ voters' = voters]_vars

\* the expired token of a deactivated account was refused with 401, not 403
C16_Witness ==
  /\ resp.op = "get_me" /\ resp.status = 401
  /\ resp.detail = "Invalid authentication credentials"
  /\ resp.token \in tokens /\ resp.token.key = SECRET_KEY /\ resp.token.exp < now
  /\ ~users[resp.token.user_id].is_active

C18_NoRevocation ==
  /\ [][(resp' # resp /\ resp'.op \in {"logout", "change_password"}
           /\ resp'.status = 200) =>
          \A t \in tokens : get_current_user(t).ok => (get_current_user(t).ok)']_vars
  /\ [](\A t \in tokens :
          (/\ t.key = SECRET_KEY /\ now <= t.exp
           /\ t.user_id \in DOMAIN users /\ users[t.user_id].is_active) =>
            get_current_user(t).ok)

\* the password was changed, and the token of the request, issued before
\* the change, is still good
C18_Witness ==
  /\ resp.op = "change_password" /\ resp.status = 200
  /\ users[1].password_hash = hash_password("Admin123!")
  /\ resp.token \in tokens
  /\ get_current_user(resp.token).ok

(* ---------------------------------------------------------------------- *)
(* login                                                                   *)
(* ---------------------------------------------------------------------- *)

\* the username of the login request names no row
UnknownUsername(response) == UsersByUsername(response.body.username) = {}

\* the username names a row and the password does not verify against it
WrongPassword(response) ==
  \E u \in UsersByUsername(response.body.username) :
    \/ users[u].password_hash = <<>>
    \/ ~verify_password(response.body.password, users[u].password_hash)

\* a step that answers a login (the user rows are as the login found them)
LoginStep == resp'.op = "login" /\ users' = users

\* C21: a login with a username of no row and a login with a known
\* username and a wrong password get one and the same answer, status 401
\* with the detail "Invalid username or password", no user info and no
\* token, whether the account of the known username is active or not.
C21_CredentialsIndistinguishable ==
  [][(LoginStep /\ (UnknownUsername(resp') \/ WrongPassword(resp'))) =>
       /\ resp'.status = 401
       /\ resp'.detail = "Invalid username or password"
       /\ resp'.principal = NoPrincipal
       /\ resp'.data = <<>> /\ resp'.stats = NoStats /\ resp'.names = <<>>
       /\ tokens' = tokens]_vars

\* a wrong password for the deactivated account was answered 401
C21_Witness ==
  /\ resp.op = "login" /\ resp.status = 401
  /\ resp.detail = "Invalid username or password"
  /\ resp.body.username = "user1" /\ resp.body.password = "Admin123!"
  /\ ~users[1].is_active

\* the username names a row whose digest the password verifies against
CorrectCredentials(response) ==
  \E u \in UsersByUsername(response.body.username) :
    /\ users[u].password_hash # <<>>
    /\ response.body.password \in PasswordInputs
    /\ users[u].password_hash = hash_password(response.body.password)

\* C22: a login is answered 200 with a token exactly when the username
\* names a row, the password is the one the stored digest was made from and
\* the row is active; correct credentials of an inactive row are answered
\* 403 "User account is inactive"; every login that is not answered 200
\* issues no token; the token of a successful login carries the id,
\* username, role and dun of the row, and the user info of the answer has
\* no password digest.
C22_LoginOutcome ==
  [][LoginStep =>
       LET active == \E u \in UsersByUsername(resp'.body.username) : users[u].is_active
       IN /\ resp'.status = 200 <=> (CorrectCredentials(resp') /\ active)
          /\ (CorrectCredentials(resp') /\ ~active) =>
                (resp'.status = 403 /\ resp'.detail = "User account is inactive")
          /\ resp'.status # 200 =>
                (tokens' = tokens /\ resp'.token = BadToken
                   /\ resp'.principal = NoPrincipal)
          /\ resp'.status = 200 =>
                \E u \in UsersByUsername(resp'.body.username) :
                  /\ resp'.token \in tokens'
                  /\ tokens' = tokens \cup {resp'.token}
                  /\ resp'.token.user_id = users[u].id
                  /\ resp'.token.username = users[u].username
                  /\ resp'.token.role = users[u].role
                  /\ resp'.token.dun = users[u].dun
                  /\ DOMAIN resp'.principal =
                       {"id", "user_id", "username", "role", "dun"}]_vars

\* the right password of the deactivated account was answered 403 and no
\* token was ever issued
C22_Witness ==
  /\ resp.op = "login" /\ resp.status = 403
  /\ resp.body.username = "user1" /\ resp.body.password = "Kawang2024"
  /\ ~users[1].is_active /\ tokens = {}

(* ---------------------------------------------------------------------- *)
(* Reassignment of duns by the administrator while requests are served     *)
(* (diagnose_and_fix_duns.py prints the SQL the administrator runs), and   *)
(* update_voter as its two store calls                                     *)
(* ---------------------------------------------------------------------- *)

\* UPDATE users SET dun = '...' WHERE username = '...'
reassign_user_dun(username, dun) ==
  /\ users' = [u \in DOMAIN users |->
                 IF StoreEq(users[u].username, username)
                   THEN [users[u] EXCEPT !.dun = dun] ELSE users[u]]
  /\ UNCHANGED <<voters, audit_log, tokens, SECRET_KEY, now, resp, pure, pending>>

\* the role column of a users row is rewritten the same way
reassign_user_role(username, role) ==
  /\ users' = [u \in DOMAIN users |->
                 IF StoreEq(users[u].username, username)
                   THEN [users[u] EXCEPT !.role = role] ELSE users[u]]
  /\ UNCHANGED <<voters, audit_log, tokens, SECRET_KEY, now, resp, pure, pending>>

\* voters "from different DUNs" are updated "individually or by area"
reassign_voter_dun(voter_id, dun) ==
  /\ voter_id \in DOMAIN voters
  /\ voters' = [voters EXCEPT ![voter_id].dun = dun]
  /\ UNCHANGED <<users, audit_log, tokens, SECRET_KEY, now, resp, pure, pending>>

\* update_voter up to and including its DUN check: the principal, the
\* capability check, the select of the row and the comparison of the duns;
\* a request that passes is left in flight before its update call
update_voter_fetch(token, voter_id, tag) ==
  LET auth == get_current_user(token) IN
  /\ pending = NoPending
  /\ IF ~auth.ok
       THEN /\ resp' = HTTPException(Request("update_voter", token, voter_id, None),
                                     NoPrincipal, auth.status, auth.detail)
            /\ UNCHANGED pending
     ELSE IF ~may_update_voters(auth.user)
       THEN /\ resp' = HTTPException(Request("update_voter", token, voter_id, None),
                                     auth.user, 403,
                                     "You don't have permission to update voters")
            /\ UNCHANGED pending
     ELSE IF voter_id \notin DOMAIN voters
       THEN /\ resp' = HTTPException(Request("update_voter", token, voter_id, None),
                                     auth.user, 404, "Voter not found")
            /\ UNCHANGED pending
     ELSE IF dun_access_denied(auth.user, voters[voter_id])
       THEN /\ resp' = HTTPException(Request("update_voter", token, voter_id, None),
                                     auth.user, 403,
                                     "Cannot update voter from different DUN")
            /\ UNCHANGED pending
     ELSE /\ pending' = [op |-> "update_voter", token |-> token, voter_id |-> voter_id,
                         tag |-> tag, current_user |-> auth.user]
          /\ UNCHANGED resp
  /\ UNCHANGED <<users, voters, audit_log, tokens, SECRET_KEY, now, pure>>

\* an update call that also matches the dun the handler compared
update_voter_write_MatchesDun ==
  /\ pending # NoPending
  /\ LET request == Request("update_voter", pending.token, pending.voter_id, None)
         matched == {v \in DOMAIN voters :
                       /\ v = pending.voter_id
                       /\ pending.current_user.role # "super_admin" =>
                            voters[v].dun = pending.current_user.dun}
     IN IF matched = {}
          THEN /\ resp' = HTTPException(request, pending.current_user, 404, "Update failed")
               /\ UNCHANGED <<voters, audit_log>>
          ELSE /\ voters' = [voters EXCEPT ![pending.voter_id].tag = pending.tag,
                                           ![pending.voter_id].updated_at = now]
               /\ audit_log' = voters_update_trigger(audit_log, pending.current_user.id,
                                                     pending.voter_id)
               /\ resp' = Response(request, pending.current_user, 200, None,
                                   <<pending.voter_id>>, NoStats, <<>>)
  /\ pending' = NoPending
  /\ UNCHANGED <<users, tokens, SECRET_KEY, now, pure>>

\* the update call of the request in flight, .eq("id", voter_id) alone, and
\* the answer made from its result
update_voter_write ==
  /\ pending # NoPending
  /\ LET request == Request("update_voter", pending.token, pending.voter_id, None)
         matched == {v \in DOMAIN voters : v = pending.voter_id}
     IN IF matched = {}
          THEN /\ resp' = HTTPException(request, pending.current_user, 404, "Update failed")
               /\ UNCHANGED <<voters, audit_log>>
          ELSE /\ voters' = [voters EXCEPT ![pending.voter_id].tag = pending.tag,
                                           ![pending.voter_id].updated_at = now]
               /\ audit_log' = voters_update_trigger(audit_log, pending.current_user.id,
                                                     pending.voter_id)
               /\ resp' = Response(request, pending.current_user, 200, None,
                                   <<pending.voter_id>>, NoStats, <<>>)
  /\ pending' = NoPending
  /\ UNCHANGED <<users, tokens, SECRET_KEY, now, pure>>

\* the role a users row is given by the administrator
ReassignedRoles == {"super_admin", "candidate_assistant"}

\* one account, a pdm of Kawang or a pdm without a dun
InitReassign ==
  /\ InitStore
  /\ users[1].role = "pdm" /\ users[1].dun \in {"Kawang", None}
  /\ pure = NotApplied

NextReassign ==
  \/ login("user1", "Kawang2024")
  \/ \E token \in RequestTokens : get_me(token)
  \/ \E token \in RequestTokens : get_voters(token, NoFilters) /\ AuditWithin(MaxAudit)
  \/ \E dun \in Duns : reassign_user_dun("user1", dun)
  \/ \E role \in ReassignedRoles : reassign_user_role("user1", role)
  \/ \E dun \in Duns : reassign_voter_dun(1, dun)
  \/ \E token \in RequestTokens : update_voter_fetch(token, 1, "Maybe")
  \/ update_voter_write /\ AuditWithin(MaxAudit)

SpecReassign == InitReassign /\ [][NextReassign]_vars

\* C23: for every issued token that get_current_user accepts, the role and
\* the dun of the principal it returns are the role and the dun of the
\* token, that is, of the user row at the login that issued the token,
\* whatever the administrator has written to the row since.
C23_SessionImmutable ==
  \A t \in tokens :
    get_current_user(t).ok =>
      /\ get_current_user(t).user.role = t.role
      /\ get_current_user(t).user.dun = t.dun

(* ---------------------------------------------------------------------- *)
(* Requests during which a call to the store raises                        *)
(* ---------------------------------------------------------------------- *)

\* str(e) of the exception the store client raises
StoreError == "store unreachable"

\* the tables whose call raises during the request
FaultPoints == {"users", "voters", "audit_log"}

\* get_current_user when its select on the users table raises: the token
\* is verified before the try block, the exception is caught inside it
get_current_user_fault(token) ==
  LET payload == verify_token(token) IN
  IF payload = NoPayload
    THEN Rejected(401, "Invalid authentication credentials")
    ELSE Rejected(401, "Authentication failed: store unreachable")

\* get_voters when the call on the table `fault` raises; a call that the
\* request does not get to cannot raise
get_voters_fault(token, p, fault) ==
  LET auth == IF fault = "users" THEN get_current_user_fault(token)
                                 ELSE get_current_user(token)
      request == Request("get_voters", token, 0, p.dun)
  IN
  /\ IF ~auth.ok
       THEN resp' = HTTPException(request, NoPrincipal, auth.status, auth.detail)
     ELSE IF no_dun_assignment(auth.user)
       THEN resp' = HTTPException(request, auth.user, 403, "User has no DUN assignment")
     ELSE resp' = HTTPException(request, auth.user, 500, StoreError)
  /\ UNCHANGED <<users, voters, audit_log, tokens, SECRET_KEY, now, pure, pending>>

\* one account, a pdm or a super_admin, with or without a dun
InitFaults ==
  /\ InitStore
  /\ users[1].role \in {"pdm", "super_admin"} /\ users[1].dun \in {"Kawang", None}
  /\ pure = NotApplied

NextFaults ==
  \/ \E password \in PasswordInputs : login("user1", password)
  \/ \E token \in RequestTokens, p \in VoterQueryInputs :
       get_voters(token, p) /\ AuditWithin(MaxAudit)
  \/ \E token \in RequestTokens, fault \in FaultPoints :
       get_voters_fault(token, NoFilters, fault)
  \/ toggle_user_status("user1") /\ AuditWithin(MaxAudit)

SpecFaults == InitFaults /\ [][NextFaults]_vars

\* C24: an answer made from an exception of the store, whichever call of
\* the request raised it, the select on users in get_current_user
\* included, has status 500.
C24_StoreFaultIs500 ==
  resp.detail \in {StoreError, "Authentication failed: store unreachable"} =>
    resp.status = 500

(* ---------------------------------------------------------------------- *)
(* The scope of every role: requests that set no filter but the dun        *)
(* ---------------------------------------------------------------------- *)

\* get_voters requests whose only parameter, if any, is the dun
ScopeQueryInputs == {[NoFilters EXCEPT !.dun = d] : d \in Duns \cup {None}}

NextScope ==
  \/ login("user1", "Kawang2024")
  \/ \E token \in RequestTokens, p \in ScopeQueryInputs :
       get_voters(token, p) /\ AuditWithin(MaxAudit)
  \/ \E token \in RequestTokens, voter_id \in VoterIdInputs :
       get_voter(token, voter_id) /\ AuditWithin(MaxAudit)
  \/ \E token \in RequestTokens, voter_id \in VoterIdInputs :
       update_voter(token, voter_id, "Maybe") /\ AuditWithin(MaxAudit)
  \/ \E token \in RequestTokens : get_audit_logs(token)

SpecScope == Init /\ [][NextScope]_vars

\* C25: the permission table grants view_audit_logs to super_admin and to
\* no other role; get_audit_logs answers 200 only to a principal whose role
\* is super_admin, and answers every other authenticated principal, one of
\* an unknown role included, 403 "Permission denied: view_audit_logs
\* required" with no entry.
C25_AuditLogsForSuperAdminOnly ==
  /\ \A r \in KnownRoles :
       DictGet(PERMISSIONS[r], "view_audit_logs", FALSE) <=> r = "super_admin"
  /\ resp.op = "get_audit_logs" =>
       /\ resp.status = 200 => resp.principal.role = "super_admin"
       /\ (Authorized /\ resp.principal.role # "super_admin") =>
            /\ resp.status = 403
            /\ resp.detail = "Permission denied: view_audit_logs required"
       /\ resp.status # 200 => resp.data = <<>>

\* a principal of an unknown role asked for the audit log, which had an
\* entry, and was refused
C25_Witness ==
  /\ resp.op = "get_audit_logs" /\ resp.status = 403 /\ resp.data = <<>>
  /\ resp.principal.role = "observer"
  /\ Len(audit_log) = 1

\* the rows of the last answer, as a set
Returned == {resp.data[i] : i \in 1..Len(resp.data)}

\* C26: a get_voters of a super_admin that sets no filter is answered 200
\* with every row of the table, whatever the principal's own dun and the
\* rows' duns, unset ones included; with the dun parameter X it is answered
\* with exactly the rows whose dun is X; and a get_voter or update_voter of
\* a super_admin is never answered 403: it is answered 200 when the voter
\* exists and 404 when it does not.
C26_SuperAdminScope ==
  (Authorized /\ resp.principal.role = "super_admin") =>
    /\ resp.op = "get_voters" =>
         /\ resp.status = 200
         /\ Len(resp.data) = Cardinality(Returned)
         /\ Returned = IF Truthy(resp.dun)
                         THEN {v \in DOMAIN voters : voters[v].dun = resp.dun}
                         ELSE DOMAIN voters
    /\ resp.op \in {"get_voter", "update_voter"} =>
         /\ resp.status # 403
         /\ resp.status = IF VoterExists THEN 200 ELSE 404

\* a super_admin of Kawang listed the voters without a dun parameter and
\* got all three, the one of Limbahau and the one without a dun included
C26_Witness ==
  /\ resp.op = "get_voters" /\ resp.status = 200
  /\ resp.principal.role = "super_admin" /\ resp.principal.dun = "Kawang"
  /\ resp.dun = None
  /\ resp.data = <<1, 2, 3>>

\* a request of a principal that is not super_admin is past its DUN check,
\* and the dun of its voter is no longer the principal's
StaleDunCheck ==
  /\ pending # NoPending
  /\ pending.current_user.role # "super_admin"
  /\ voters[pending.voter_id].dun # pending.current_user.dun

\* C27: the update call of update_voter does not look at the dun again: when
\* the dun of the voter was rewritten after the handler's DUN check, so that
\* it differs from the dun of the principal, who is not super_admin, the
\* call still writes the tag of that voter and the request is answered 200.
C27_WriteAfterReassignment ==
  [][(StaleDunCheck /\ pending' = NoPending) =>
       /\ voters'[pending.voter_id].tag = pending.tag
       /\ voters'[pending.voter_id].dun = voters[pending.voter_id].dun
       /\ voters'[pending.voter_id].dun # pending.current_user.dun
       /\ resp'.op = "update_voter" /\ resp'.status = 200
       /\ resp'.principal = pending.current_user]_vars

\* a pdm of Kawang passed the DUN check for voter 1, whose tag is still
\* "Yes", and the voter was moved to Limbahau before the update call, which
\* nothing now prevents
C27_Witness ==
  /\ pending # NoPending
  /\ pending.current_user.role = "pdm" /\ pending.current_user.dun = "Kawang"
  /\ users[1].dun = "Kawang"
  /\ pending.voter_id = 1 /\ pending.tag = "Maybe"
  /\ voters[1].dun = "Limbahau" /\ voters[1].tag = "Yes"
  /\ audit_log = <<>>

\* C28: every voter's tag is "Yes", "Unsure", "No" or unset, and the
\* untagged count of a get_statistics answer is the number of rows in the
\* principal's scope that have no tag, the rows that get_voters matches
\* with tag 'untagged'.
C28_TagDomain ==
  /\ \A v \in DOMAIN voters : voters[v].tag \in {"Yes", "Unsure", "No", None}
  /\ (resp.op = "get_statistics" /\ resp.status = 200) =>
       resp.stats.untagged =
         Cardinality(get_voters_query(resp.principal,
                                      [NoFilters EXCEPT !.tag = "untagged"]))

\* can_access_dun for the principal of the last request and the voter v
Accessible(v) ==
  can_access_dun(resp.principal.role, resp.principal.dun, voters[v].dun)

\* C29: a get_voter for an existing voter gets past the DUN check (is not
\* answered 403) exactly when can_access_dun holds of the principal and the
\* voter; so does an update_voter of a principal that has update_voters;
\* and a get_voters that sets no filter returns exactly the rows of which
\* can_access_dun holds.
C29_InlineChecksAgree ==
  Authorized =>
    /\ (resp.op = "get_voter" /\ VoterExists) =>
         (resp.status # 403 <=> Accessible(resp.voter_id))
    /\ (resp.op = "update_voter" /\ VoterExists
          /\ check_permission(resp.principal.role, "update_voters")) =>
         (resp.status # 403 <=> Accessible(resp.voter_id))
    /\ (resp.op = "get_voters" /\ resp.dun = None) =>
         Returned = {v \in DOMAIN voters : Accessible(v)}

(* ---------------------------------------------------------------------- *)
(* Every operation of the API, and the administrator's switch              *)
(* ---------------------------------------------------------------------- *)

\* the two accounts of InitAccount, an hour after the rows were written
InitFrame ==
  /\ users =
       [u \in AccountIds |->
          IF u = 1
            THEN [id |-> 1, username |-> "user1",
                  password_hash |-> hash_password("Kawang2024"), role |-> "pdm",
                  dun |-> "Kawang", is_active |-> TRUE, must_change_password |-> TRUE]
            ELSE [id |-> 2, username |-> "user2",
                  password_hash |-> hash_password("Admin123!"), role |-> "super_admin",
                  dun |-> None, is_active |-> TRUE, must_change_password |-> FALSE]]
  /\ voters = [v \in VoterIds |-> VoterRow(v, InitialTag(v), 0)]
  /\ audit_log = <<>>
  /\ tokens = {}
  /\ SECRET_KEY = 1
  /\ now = 1
  /\ resp = NoResponse
  /\ pending = NoPending
  /\ pure = NotApplied

NextFrame ==
  \/ \E username \in AccountUsernames, password \in PasswordInputs : login(username, password)
  \/ \E token \in RequestTokens : get_voters(token, NoFilters) /\ AuditWithin(MaxAccountAudit)
  \/ \E token \in RequestTokens, voter_id \in AccountVoterIdInputs :
       get_voter(token, voter_id) /\ AuditWithin(MaxAccountAudit)
  \/ \E token \in RequestTokens, voter_id \in AccountVoterIdInputs :
       update_voter(token, voter_id, "Maybe") /\ AuditWithin(MaxAccountAudit)
  \/ \E token \in RequestTokens : get_statistics(token) /\ AuditWithin(MaxAccountAudit)
  \/ \E token \in RequestTokens : get_daerah_list(token)
  \/ \E token \in RequestTokens : get_lokaliti_list(token)
  \/ \E token \in RequestTokens : get_dun_list(token)
  \/ \E token \in RequestTokens : get_audit_logs(token)
  \/ \E token \in RequestTokens : get_user_activity(token)
  \/ \E token \in RequestTokens : get_me(token)
  \/ \E token \in RequestTokens : logout(token)
  \/ \E token \in RequestTokens, current_password \in PasswordInputs :
       change_password(token, current_password, "Admin123!") /\ AuditWithin(MaxAccountAudit)
  \/ toggle_user_status("user1") /\ AuditWithin(MaxAccountAudit)

SpecFrame == InitFrame /\ [][NextFrame]_vars

\* the operations of the API that only read the voters and users tables
ReadOperations ==
  {"login", "get_me", "get_voters", "get_voter", "get_statistics", "get_daerah_list",
   "get_lokaliti_list", "get_dun_list", "get_audit_logs", "get_user_activity", "logout"}

\* the step is the administrator's switch of an account, not a request
AdministratorStep ==
  /\ Appended
  /\ audit_log'[Len(audit_log')].action = "user_status_changed"

\* C30: a step that answers a request changes no voter's dun and no user's
\* role, dun or is_active flag, and adds or removes no row; a read operation
\* leaves voters and users as they were; update_voter leaves users as they
\* were and changes at most the tag and updated_at of the voter it names;
\* change_password leaves voters as they were and changes at most the
\* password_hash and must_change_password of the principal's row.
C30_Frame ==
  [][~AdministratorStep =>
       /\ DOMAIN voters' = DOMAIN voters /\ DOMAIN users' = DOMAIN users
       /\ \A v \in DOMAIN voters : voters'[v].dun = voters[v].dun
       /\ \A u \in DOMAIN users :
            /\ users'[u].role = users[u].role
            /\ users'[u].dun = users[u].dun
            /\ users'[u].is_active = users[u].is_active
       /\ resp'.op \in ReadOperations => (voters' = voters /\ users' = users)
       /\ resp'.op = "update_voter" =>
            /\ users' = users
            /\ \A v \in DOMAIN voters :
                 voters'[v] = IF v = resp'.voter_id
                                THEN [voters[v] EXCEPT !.tag = voters'[v].tag,
                                                       !.updated_at = voters'[v].updated_at]
                                ELSE voters[v]
       /\ resp'.op = "change_password" =>
            /\ voters' = voters
            /\ \A u \in DOMAIN users :
                 users'[u] =
                   IF u = resp'.principal.id
                     THEN [users[u] EXCEPT
                             !.password_hash = users'[u].password_hash,
                             !.must_change_password = users'[u].must_change_password]
                     ELSE users[u]]_vars

\* user1 has changed the password and retagged voter 1; user2 and the other
\* voters are as they were
C30_Witness ==
  /\ users[1].password_hash = hash_password("Admin123!")
  /\ ~users[1].must_change_password
  /\ users[2].password_hash = hash_password("Admin123!")
  /\ ~users[2].must_change_password
  /\ resp.op = "update_voter" /\ resp.status = 200
  /\ voters[1].tag = "Maybe" /\ voters[1].updated_at = 1 /\ voters[1].dun = "Kawang"
  /\ voters[2] = VoterRow(2, InitialTag(2), 0)

====
